---- MODULE Spec2Model ----
(***************************************************************************)
(* Model of the little_censor crate: the redaction pipeline of             *)
(* src/src/censor.rs (censor, regex_censor, fix_sentence and the three     *)
(* built-in patterns) and the dictionary manager of src/src/lib.rs         *)
(* (add_words).                                                            *)
(*                                                                         *)
(* A text is a sequence of characters; a character is a one-character      *)
(* string.  Positions are 1-based; a span [i, e) is given by its first     *)
(* position i and the position e after its last character.                 *)
(***************************************************************************)
EXTENDS Integers, Sequences, FiniteSets, TLC

(***************************************************************************)
(* Characters and character classes                                        *)
(***************************************************************************)
Lower == {"a","b","c","d","e","f","g","h","i","j","k","l","m",
          "n","o","p","q","r","s","t","u","v","w","x","y","z"}
Upper == {"A","B","C","D","E","F","G","H","I","J","K","L","M",
          "N","O","P","Q","R","S","T","U","V","W","X","Y","Z"}
Digit == {"0","1","2","3","4","5","6","7","8","9"}
AlNum == Lower \cup Upper \cup Digit

\* Characters of the model that take two bytes in UTF-8.
Wide == {"é"}

\* String::len counts bytes: the UTF-8 width of one character.
Utf8Len(c) == IF c \in Wide THEN 2 ELSE 1

RECURSIVE ByteLen(_)
\* str::len of a text: the sum of the UTF-8 widths of its characters.
ByteLen(s) == IF s = <<>> THEN 0 ELSE Utf8Len(Head(s)) + ByteLen(Tail(s))

\* \w of the regex crate (Unicode aware): letters, digits, underscore.
IsWordChar(c) == c \in AlNum \cup {"_"} \cup Wide

\* [-a-zA-Z0-9@:%._\+~#=]
LinkHostClass == AlNum \cup {"-","@",":","%",".","_","+","~","#","="}
\* [a-zA-Z0-9()]
LinkTldClass == AlNum \cup {"(",")"}
\* [-a-zA-Z0-9()!@:%_\+.~#?&\/\/=]
LinkTailClass == AlNum \cup {"-","(",")","!","@",":","%","_","+",".","~","#","?","&","/","="}
\* The characters [^@ \t\r\n] excludes.
EmailExcluded == {"@"," ","\t","\r","\n"}

LinkHostMax == 256
LinkTldMax == 6
IpTailGroups == 3

(***************************************************************************)
(* Text helpers                                                            *)
(***************************************************************************)
Min(a, b) == IF a < b THEN a ELSE b

\* "*".repeat(n)
Stars(n) == [i \in 1..n |-> "*"]

\* v occurs in s starting at position i.
OccursAt(s, i, v) ==
    /\ i >= 1
    /\ i + Len(v) - 1 <= Len(s)
    /\ \A j \in 1..Len(v) : s[i + j - 1] = v[j]

RECURSIVE ReplaceFrom(_, _, _, _)
\* str::replace for a non-empty pattern: every non-overlapping occurrence,
\* left to right.
ReplaceFrom(s, i, from, to) ==
    IF i > Len(s) THEN <<>>
    ELSE IF OccursAt(s, i, from)
         THEN to \o ReplaceFrom(s, i + Len(from), from, to)
         ELSE <<s[i]>> \o ReplaceFrom(s, i + 1, from, to)

RECURSIVE Interleave(_, _)
\* str::replace for the empty pattern: it matches at every boundary.
Interleave(s, to) ==
    IF s = <<>> THEN to ELSE to \o <<Head(s)>> \o Interleave(Tail(s), to)

Replace(s, from, to) ==
    IF from = <<>> THEN Interleave(s, to) ELSE ReplaceFrom(s, 1, from, to)

RECURSIVE RunEnd(_, _, _)
\* The position after the longest run of characters of the class S that
\* starts at i (i itself when s[i] is not in S).
RunEnd(s, i, S) ==
    IF i > Len(s) \/ s[i] \notin S THEN i ELSE RunEnd(s, i + 1, S)

RECURSIVE RunEndNot(_, _, _)
\* The same for a negated class [^...]: the run of characters not in S.
RunEndNot(s, i, S) ==
    IF i > Len(s) \/ s[i] \in S THEN i ELSE RunEndNot(s, i + 1, S)

\* \b at the boundary before position p.
WordBoundary(s, p) ==
    LET before == p - 1 >= 1 /\ p - 1 <= Len(s) /\ IsWordChar(s[p - 1])
        after == p >= 1 /\ p <= Len(s) /\ IsWordChar(s[p])
    IN before # after

CharAt(s, i, c) == i >= 1 /\ i <= Len(s) /\ s[i] = c
CharIn(s, i, S) == i >= 1 /\ i <= Len(s) /\ s[i] \in S

(***************************************************************************)
(* The built-in patterns.  Each XEnd(s, i) is the position after the match *)
(* the regex crate finds when it starts at i (leftmost-first: greedy       *)
(* repetition, alternatives in order, backtracking), or 0 when the pattern *)
(* does not match at i.                                                    *)
(***************************************************************************)
NoMatch == 0

RECURSIVE LinkTldTry(_, _, _)
\* \.[a-zA-Z0-9()]{1,6}\b(tail*) once the host ends before position d (the
\* dot): the longest TLD of t..1 characters that ends at a word boundary,
\* followed by the longest run of tail characters.
LinkTldTry(s, d, t) ==
    IF t < 1 THEN NoMatch
    ELSE IF WordBoundary(s, d + 1 + t)
         THEN RunEnd(s, d + 1 + t, LinkTailClass)
         ELSE LinkTldTry(s, d, t - 1)

RECURSIVE LinkHostTry(_, _, _)
\* [-a-zA-Z0-9@:%._\+~#=]{1,256} starting at p, tried with n, n-1, ..., 1
\* characters (greedy, then backtracking).
LinkHostTry(s, p, n) ==
    IF n < 1 THEN NoMatch
    ELSE LET d == p + n
             tmax == Min(LinkTldMax, RunEnd(s, d + 1, LinkTldClass) - (d + 1))
             e == IF CharAt(s, d, ".") THEN LinkTldTry(s, d, tmax) ELSE NoMatch
         IN IF e # NoMatch THEN e ELSE LinkHostTry(s, p, n - 1)

LinkBody(s, p) ==
    LinkHostTry(s, p, Min(LinkHostMax, RunEnd(s, p, LinkHostClass) - p))

\* LINK_REGEX:
\* https?:\/\/(www\.)?[-a-zA-Z0-9@:%._\+~#=]{1,256}\.[a-zA-Z0-9()]{1,6}\b([-a-zA-Z0-9()!@:%_\+.~#?&\/\/=]*)
LinkEnd(s, i) ==
    IF ~OccursAt(s, i, <<"h","t","t","p">>) THEN NoMatch
    ELSE LET p0 == IF CharAt(s, i + 4, "s") THEN i + 5 ELSE i + 4
             q == p0 + 3
         IN IF ~OccursAt(s, p0, <<":","/","/">>) THEN NoMatch
            ELSE LET withWww == IF OccursAt(s, q, <<"w","w","w",".">>)
                                THEN LinkBody(s, q + 4) ELSE NoMatch
                 IN IF withWww # NoMatch THEN withWww ELSE LinkBody(s, q)

\* 25[0-5]|2[0-4][0-9]|[01]?[0-9][0-9]? at i: the positions after the octet,
\* in the order the regex tries them.
OctetEnds(s, i) ==
    (IF CharAt(s, i, "2") /\ CharAt(s, i + 1, "5")
        /\ CharIn(s, i + 2, {"0","1","2","3","4","5"})
     THEN <<i + 3>> ELSE <<>>)
    \o (IF CharAt(s, i, "2") /\ CharIn(s, i + 1, {"0","1","2","3","4"})
           /\ CharIn(s, i + 2, Digit)
        THEN <<i + 3>> ELSE <<>>)
    \o (IF CharIn(s, i, {"0","1"}) /\ CharIn(s, i + 1, Digit)
        THEN (IF CharIn(s, i + 2, Digit) THEN <<i + 3>> ELSE <<>>) \o <<i + 2>>
        ELSE <<>>)
    \o (IF CharIn(s, i, Digit)
        THEN (IF CharIn(s, i + 1, Digit) THEN <<i + 2>> ELSE <<>>) \o <<i + 1>>
        ELSE <<>>)

RECURSIVE IpRest(_, _, _)
RECURSIVE IpFirstOk(_, _, _)
\* The first candidate end of an octet after which the rest of the pattern
\* (n more "\.octet" groups) matches.
IpFirstOk(s, cands, n) ==
    IF cands = <<>> THEN NoMatch
    ELSE LET e == IpRest(s, Head(cands), n)
         IN IF e # NoMatch THEN e ELSE IpFirstOk(s, Tail(cands), n)

\* (\.(octet)){n} starting at p.
IpRest(s, p, n) ==
    IF n = 0 THEN p
    ELSE IF CharAt(s, p, ".") THEN IpFirstOk(s, OctetEnds(s, p + 1), n - 1)
         ELSE NoMatch

\* IP_REGEX:
\* (\b25[0-5]|\b2[0-4][0-9]|\b[01]?[0-9][0-9]?)(\.(25[0-5]|2[0-4][0-9]|[01]?[0-9][0-9]?)){3}
IpEnd(s, i) ==
    IF WordBoundary(s, i) THEN IpFirstOk(s, OctetEnds(s, i), IpTailGroups)
    ELSE NoMatch

\* EMAIL_REGEX: [^@ \t\r\n]+@[^@ \t\r\n]+\.[^@ \t\r\n]+
\* The local part is the whole run up to the "@"; the rest is the whole run
\* after it, provided it holds a "." with a character on either side.
EmailEnd(s, i) ==
    LET k == RunEndNot(s, i, EmailExcluded)
        m == RunEndNot(s, k + 1, EmailExcluded)
    IN IF k > i /\ CharAt(s, k, "@")
          /\ \E d \in (k + 2)..(m - 2) : s[d] = "."
       THEN m ELSE NoMatch

(***************************************************************************)
(* Custom patterns.  The model covers the fragment of the pattern syntax   *)
(* made of literal characters and groups: Regex::new rejects a pattern     *)
(* whose parentheses do not balance, and a compiled pattern matches its    *)
(* literal characters.                                                     *)
(***************************************************************************)
RECURSIVE ParenDepth(_, _)
\* The nesting depth after reading p, or -1 once a ")" closes nothing.
ParenDepth(p, depth) ==
    IF depth < 0 \/ p = <<>> THEN depth
    ELSE ParenDepth(Tail(p), IF Head(p) = "(" THEN depth + 1
                             ELSE IF Head(p) = ")" THEN depth - 1
                             ELSE depth)

IsNotParen(c) == c \notin {"(", ")"}

\* Regex::new(pattern): Ok(matcher) or Err(regex::Error).
RegexNew(p) ==
    IF ParenDepth(p, 0) = 0
    THEN [ok |-> TRUE, regex |-> [kind |-> "Custom", lit |-> SelectSeq(p, IsNotParen)]]
    ELSE [ok |-> FALSE, regex |-> [kind |-> "Custom", lit |-> <<>>]]

LINK_REGEX == [kind |-> "Link", lit |-> <<>>]
IP_REGEX == [kind |-> "IP", lit |-> <<>>]
EMAIL_REGEX == [kind |-> "Email", lit |-> <<>>]

\* The end of the match of a compiled pattern at position i, or NoMatch.
MatchEnd(regex, s, i) ==
    CASE regex.kind = "Link" -> LinkEnd(s, i)
      [] regex.kind = "IP" -> IpEnd(s, i)
      [] regex.kind = "Email" -> EmailEnd(s, i)
      [] OTHER -> IF OccursAt(s, i, regex.lit) THEN i + Len(regex.lit) ELSE NoMatch

RECURSIVE FindFrom(_, _, _)
\* Regex::find_iter: the leftmost non-overlapping matches from position pos
\* on, each a span [start, end).
FindFrom(regex, s, pos) ==
    IF pos > Len(s) + 1 THEN <<>>
    ELSE LET e == MatchEnd(regex, s, pos)
         IN IF e = NoMatch THEN FindFrom(regex, s, pos + 1)
            ELSE <<[start |-> pos, end |-> e]>>
                 \o FindFrom(regex, s, IF e = pos THEN pos + 1 ELSE e)

FindIter(regex, s) == FindFrom(regex, s, 1)

\* Match::as_str of every match.
MatchTexts(regex, s) ==
    LET spans == FindIter(regex, s)
    IN [k \in 1..Len(spans) |-> SubSeq(s, spans[k].start, spans[k].end - 1)]

(***************************************************************************)
(* regex_censor and fix_sentence                                           *)
(***************************************************************************)
RECURSIVE ReplaceMatches(_, _)
\* for value in matches { *sentence = sentence.replace(value, "*".repeat(value.len())) }
ReplaceMatches(sentence, matches) ==
    IF matches = <<>> THEN sentence
    ELSE ReplaceMatches(
             Replace(sentence, Head(matches), Stars(ByteLen(Head(matches)))),
             Tail(matches))

\* regex_censor(&mut sentence, regex): the buffer after the pass.
regex_censor(sentence, regex) ==
    LET binding == sentence
    IN ReplaceMatches(sentence, MatchTexts(regex, binding))

\* fix_sentence keeping the classifier's character where it is not a mask.
fix_sentence_KeepClassified(original, censored) ==
    [i \in 1..Min(Len(censored), Len(original)) |-> censored[i]]

\* fix_sentence(original, censored): zip stops at the shorter text.
fix_sentence(original, censored) ==
    [i \in 1..Min(Len(censored), Len(original)) |->
        IF censored[i] # "*" THEN original[i] ELSE censored[i]]

(***************************************************************************)
(* The vocabulary dictionary and its classifier (the rustrict crate).      *)
(* The dictionary maps a word to its Type; the classifier masks every      *)
(* occurrence of a word that is not SAFE, keeping its first character.     *)
(***************************************************************************)
\* Trie::set(word, type).
TrieSet(dict, word, type) ==
    [w \in (DOMAIN dict) \cup {word} |-> IF w = word THEN type ELSE dict[w]]

\* CensorStr::censor on a text, against the shared dictionary.
Classify(text, dict) ==
    LET bad == {w \in DOMAIN dict : dict[w] # "SAFE"}
        hit(j) == \E w \in bad : \E i \in 1..Len(text) :
                      OccursAt(text, i, w) /\ i < j /\ j <= i + Len(w) - 1
    IN [j \in 1..Len(text) |-> IF hit(j) THEN "*" ELSE text[j]]

(***************************************************************************)
(* censor                                                                  *)
(***************************************************************************)
\* An order of the variants with Custom declared first.
TypeRank_CustomFirst(t) ==
    CASE t = "Custom" -> 0 [] t = "Link" -> 1 [] t = "IP" -> 2 [] t = "Email" -> 3

\* The derived Ord of CensorTypes: the declaration order of the variants.
TypeRank(t) ==
    CASE t = "Link" -> 0 [] t = "IP" -> 1 [] t = "Email" -> 2 [] t = "Custom" -> 3

RECURSIVE InsertSorted(_, _)
InsertSorted(t, sorted) ==
    IF sorted = <<>> THEN <<t>>
    ELSE IF TypeRank(t) < TypeRank(Head(sorted)) THEN <<t>> \o sorted
         ELSE <<Head(sorted)>> \o InsertSorted(t, Tail(sorted))

\* censor without the call of sort.
Sort_None(types) == types

RECURSIVE Sort(_)
\* types.sort()
Sort(types) ==
    IF types = <<>> THEN <<>>
    ELSE InsertSorted(types[Len(types)], Sort(SubSeq(types, 1, Len(types) - 1)))

RECURSIVE Dedup(_)
\* types.dedup(): drops an element equal to the one before it.
Dedup(types) ==
    IF Len(types) <= 1 THEN types
    ELSE IF types[1] = types[2] THEN Dedup(Tail(types))
         ELSE <<types[1]>> \o Dedup(Tail(types))

Ok(v) == [ok |-> TRUE, value |-> v]
Err(e) == [ok |-> FALSE, error |-> e]

\* The match on typ with a Custom arm that skips the pass when arg is None.
TypeStep_SkipMissing(typ, custom, arg) ==
    CASE typ = "Link" -> Ok(regex_censor(custom, LINK_REGEX))
      [] typ = "IP" -> Ok(regex_censor(custom, IP_REGEX))
      [] typ = "Email" -> Ok(regex_censor(custom, EMAIL_REGEX))
      [] typ = "Custom" ->
            IF arg = <<>> THEN Ok(custom)
            ELSE LET compiled == RegexNew(arg[1])
                 IN IF ~compiled.ok THEN Err("InvalidRegex")
                    ELSE Ok(regex_censor(custom, compiled.regex))

\* One arm of the match on typ: Ok(the buffer after the pass) or Err.
\* arg is an Option: <<>> is None and <<p>> is Some(p).
TypeStep(typ, custom, arg) ==
    CASE typ = "Link" -> Ok(regex_censor(custom, LINK_REGEX))
      [] typ = "IP" -> Ok(regex_censor(custom, IP_REGEX))
      [] typ = "Email" -> Ok(regex_censor(custom, EMAIL_REGEX))
      [] typ = "Custom" ->
            IF arg = <<>> THEN Err("NoArgs")
            ELSE LET compiled == RegexNew(arg[1])
                 IN IF ~compiled.ok THEN Err("InvalidRegex")
                    ELSE Ok(regex_censor(custom, compiled.regex))

\* Censored with the flag set when the text changed.
MakeCensored_Changed(sentence, censored) ==
    [original |-> sentence, censored |-> censored, valid |-> sentence # censored]

\* Ok(Censored { original, censored, valid }).
MakeCensored(sentence, censored) ==
    [original |-> sentence, censored |-> censored, valid |-> sentence = censored]

RECURSIVE CensorLoop(_, _, _)
\* for typ in types { ... }: Ok(the buffer after every pass) or the first Err.
CensorLoop(types, custom, arg) ==
    IF types = <<>> THEN Ok(custom)
    ELSE LET r == TypeStep(Head(types), custom, arg)
         IN IF r.ok THEN CensorLoop(Tail(types), r.value, arg) ELSE r

\* censor(sentence, types, arg) as a function of its inputs and of the
\* dictionary the classifier reads.
censor(sentence, types, arg, dict) ==
    LET r == CensorLoop(Dedup(Sort(types)), sentence, arg)
    IN IF r.ok
       THEN Ok(MakeCensored(sentence, fix_sentence(r.value, Classify(r.value, dict))))
       ELSE r

(***************************************************************************)
(* Bounds and input sets                                                   *)
(***************************************************************************)
\* The longest text of a censor call, in fragments.
CallFrags == 2
\* The longest text of a call whose output is censored again, in fragments.
AgainFrags == 3
\* The longest types list of a censor call.
MaxTypes == 2
\* The longest batch of an add_words call.
MaxBatch == 2
\* The longest buffer of a single masking pass, in fragments.
MaskFrags == 3
\* The longest text handed to fix_sentence, in characters.
FixLen == 3

\* A word of the default vocabulary.
Profanity == <<"b","a","d">>

Fragments ==
    { <<"a">>, <<" ">>, <<"é">>,
      Profanity,
      <<"@","a",".","a">>,
      <<"1",".","1",".","1",".","1">>,
      <<"h","t","t","p",":","/","/","a",".","a">> }

RECURSIVE TextsUpTo(_, _)
\* The texts made of at most n fragments of F.
TextsUpTo(F, n) ==
    IF n = 0 THEN {<<>>}
    ELSE LET T == TextsUpTo(F, n - 1)
         IN T \cup {t \o f : t \in T, f \in F}

RECURSIVE SeqsUpTo(_, _)
\* The sequences of at most n elements of S.
SeqsUpTo(S, n) ==
    IF n = 0 THEN {<<>>}
    ELSE LET T == SeqsUpTo(S, n - 1)
         IN T \cup {Append(t, x) : t \in T, x \in S}

CensorTypes == {"Link", "IP", "Email", "Custom"}
TypeLists == SeqsUpTo(CensorTypes, MaxTypes)
\* The texts of the censor calls: vocabulary words, addresses and letters.
CensorTexts == TextsUpTo(Fragments \ { <<" ">>, <<"é">> }, CallFrags)
\* Texts without a word of the vocabulary: the classifier leaves them alone.
AgainTexts == TextsUpTo(Fragments \ {Profanity}, AgainFrags)
MaskTexts == TextsUpTo(Fragments, MaskFrags)
\* Buffers of one-byte characters only.
AsciiMaskTexts == TextsUpTo({f \in Fragments : \A i \in 1..Len(f) : f[i] \notin Wide}, MaskFrags)
FixTexts == SeqsUpTo({"a", "A", "*"}, FixLen)

\* arg: None, a pattern that does not compile, and one that does.
CustomArgs == { <<>>, << <<"(">> >>, << <<"a">> >> }

\* The matchers of a masking pass: the built-in ones and two compiled ones.
Matchers ==
    {LINK_REGEX, IP_REGEX, EMAIL_REGEX}
    \cup {RegexNew(p).regex : p \in { <<"a">>, <<"(","é",")">> }}

\* The vocabulary the classifier starts with.
DefaultDictionary == [w \in {Profanity} |-> "INAPPROPRIATE"]

Vulgars ==
    { [word |-> <<>>, word_type |-> "INAPPROPRIATE"],
      [word |-> Profanity, word_type |-> "SAFE"],
      [word |-> <<"a",".","a">>, word_type |-> "INAPPROPRIATE"],
      [word |-> <<"a",".","a">>, word_type |-> "SAFE"] }
Batches == SeqsUpTo(Vulgars, MaxBatch)

RECURSIVE AddAll(_, _)
\* The dictionary after a batch without empty words.
AddAll(dict, batch) ==
    IF batch = <<>> THEN dict
    ELSE AddAll([w \in (DOMAIN dict) \cup {Head(batch).word} |->
                    IF w = Head(batch).word THEN Head(batch).word_type ELSE dict[w]],
                Tail(batch))

\* Two dictionaries add_words can leave behind.
Dictionaries ==
    { DefaultDictionary,
      AddAll(DefaultDictionary, <<[word |-> <<"a",".","a">>, word_type |-> "INAPPROPRIATE"],
                                  [word |-> Profanity, word_type |-> "SAFE"]>>) }

\* The inputs of the calls that run concurrently with add_words.
ConcTexts == { Profanity, <<"h","t","t","p",":","/","/","a",".","a">> }
ConcTypeLists == { <<>>, <<"Link">>, <<"Custom">> }
ConcArgs == { <<>> }

(***************************************************************************)
(* State                                                                   *)
(***************************************************************************)
VARIABLES
    pc,          \* the censor call: "idle", "loop", "done" or "error"
    sentence,    \* censor's parameter sentence
    types_in,    \* censor's parameter types, as the caller passed it
    types,       \* the vector after sort and dedup
    ti,          \* the position of the for loop in types
    arg,         \* censor's parameter arg: <<>> is None, <<p>> is Some(p)
    custom,      \* the working buffer
    ret,         \* <<>> while the call runs, then <<its Result>>
    first,       \* <<c>> while the call re-censors c, the output of the call before
    dictionary,  \* the process-wide Trie
    apc,         \* the add_words call: "idle", "loop", "ok" or "error"
    vulgars,     \* add_words' parameter
    vi,          \* the position of its for loop
    dict0,       \* the dictionary as the add_words call found it
    rc,          \* one regex_censor call: regex, binding, sentence, done
    fs           \* one fix_sentence call: original, censored, out, done

censorVars == <<pc, sentence, types_in, types, ti, arg, custom, ret, first>>
addVars == <<apc, vulgars, vi, dict0>>
vars == <<pc, sentence, types_in, types, ti, arg, custom, ret, first,
          dictionary, apc, vulgars, vi, dict0, rc, fs>>

IdleCensor ==
    /\ pc = "idle"
    /\ sentence = <<>>
    /\ types_in = <<>>
    /\ types = <<>>
    /\ ti = 1
    /\ arg = <<>>
    /\ custom = <<>>
    /\ ret = <<>>
    /\ first = <<>>

IdleAdd ==
    /\ apc = "idle"
    /\ vulgars = <<>>
    /\ vi = 1
    /\ dict0 = DefaultDictionary

NoRegexCensor == [regex |-> LINK_REGEX, binding |-> <<>>, sentence |-> <<>>, done |-> TRUE]
NoFixSentence == [original |-> <<>>, censored |-> <<>>, out |-> <<>>, done |-> TRUE]

(***************************************************************************)
(* censor, step by step                                                    *)
(***************************************************************************)
\* Entry: sort, dedup, clone the sentence into the working buffer.
Enter(s, tl, a, again) ==
    /\ sentence' = s
    /\ types_in' = tl
    /\ types' = Dedup(Sort(tl))
    /\ ti' = 1
    /\ arg' = a
    /\ custom' = s
    /\ ret' = <<>>
    /\ first' = again
    /\ pc' = "loop"
    /\ UNCHANGED <<dictionary, apc, vulgars, vi, dict0, rc, fs>>

CensorCall(Texts, Lists, Args) ==
    /\ pc = "idle"
    /\ \E s \in Texts, tl \in Lists, a \in Args : Enter(s, tl, a, <<>>)

\* One iteration of the for loop whose arm succeeds.
CensorPass ==
    /\ pc = "loop"
    /\ ti <= Len(types)
    /\ TypeStep(types[ti], custom, arg).ok
    /\ custom' = TypeStep(types[ti], custom, arg).value
    /\ ti' = ti + 1
    /\ UNCHANGED <<pc, sentence, types_in, types, arg, ret, first,
                   dictionary, apc, vulgars, vi, dict0, rc, fs>>

\* The Custom arm returns early through the ? operator.
CensorFail ==
    /\ pc = "loop"
    /\ ti <= Len(types)
    /\ ~TypeStep(types[ti], custom, arg).ok
    /\ ret' = <<TypeStep(types[ti], custom, arg)>>
    /\ pc' = "error"
    /\ UNCHANGED <<sentence, types_in, types, ti, arg, custom, first,
                   dictionary, apc, vulgars, vi, dict0, rc, fs>>

\* After the loop: classify against the shared dictionary, reconcile, return.
CensorClassify ==
    /\ pc = "loop"
    /\ ti > Len(types)
    /\ ret' = <<Ok(MakeCensored(sentence,
                                fix_sentence(custom, Classify(custom, dictionary))))>>
    /\ pc' = "done"
    /\ UNCHANGED <<sentence, types_in, types, ti, arg, custom, first,
                   dictionary, apc, vulgars, vi, dict0, rc, fs>>

\* The caller takes the result.
CensorReturn ==
    /\ pc \in {"done", "error"}
    /\ pc' = "idle"
    /\ sentence' = <<>>
    /\ types_in' = <<>>
    /\ types' = <<>>
    /\ ti' = 1
    /\ arg' = <<>>
    /\ custom' = <<>>
    /\ ret' = <<>>
    /\ first' = <<>>
    /\ UNCHANGED <<dictionary, apc, vulgars, vi, dict0, rc, fs>>

\* The caller censors the output of a successful call again, with the same
\* types and arg.
CensorAgain ==
    /\ pc = "done"
    /\ first = <<>>
    /\ Enter(ret[1].value.censored, types_in, arg, <<ret[1].value.censored>>)

(***************************************************************************)
(* add_words, step by step.  The Trie is written without a lock, so a      *)
(* classification racing with a set sees the dictionary before or after    *)
(* it: both are interleavings of CensorClassify with AddSet.               *)
(***************************************************************************)
\* The loop body without the is_empty check.
AddStep_NoCheck(dict, vulgar) ==
    Ok(TrieSet(dict, vulgar.word, vulgar.word_type))

\* The loop body with a set that keeps the type of a word already present.
AddStep_KeepExisting(dict, vulgar) ==
    IF vulgar.word = <<>> THEN Err("EmptyWord")
    ELSE IF vulgar.word \in DOMAIN dict THEN Ok(dict)
    ELSE Ok(TrieSet(dict, vulgar.word, vulgar.word_type))

\* The body of the for loop for one entry: Err(EmptyWord), or Ok(the
\* dictionary after the set).
AddStep(dict, vulgar) ==
    IF vulgar.word = <<>> THEN Err("EmptyWord")
    ELSE Ok(TrieSet(dict, vulgar.word, vulgar.word_type))

AddCall ==
    /\ apc = "idle"
    /\ \E b \in Batches :
        /\ vulgars' = b
        /\ vi' = 1
        /\ dict0' = dictionary
        /\ apc' = "loop"
    /\ UNCHANGED <<censorVars, dictionary, rc, fs>>

\* if vulgar.word.is_empty() { return Err(Error::EmptyWord) }
AddReject ==
    /\ apc = "loop"
    /\ vi <= Len(vulgars)
    /\ ~AddStep(dictionary, vulgars[vi]).ok
    /\ apc' = "error"
    /\ UNCHANGED <<censorVars, dictionary, vulgars, vi, dict0, rc, fs>>

\* Trie::customize_default().set(&vulgar.word, vulgar.word_type)
AddSet ==
    /\ apc = "loop"
    /\ vi <= Len(vulgars)
    /\ AddStep(dictionary, vulgars[vi]).ok
    /\ dictionary' = AddStep(dictionary, vulgars[vi]).value
    /\ vi' = vi + 1
    /\ UNCHANGED <<censorVars, apc, vulgars, dict0, rc, fs>>

AddOk ==
    /\ apc = "loop"
    /\ vi > Len(vulgars)
    /\ apc' = "ok"
    /\ UNCHANGED <<censorVars, dictionary, vulgars, vi, dict0, rc, fs>>

AddReturn ==
    /\ apc \in {"ok", "error"}
    /\ apc' = "idle"
    /\ vulgars' = <<>>
    /\ vi' = 1
    /\ dict0' = DefaultDictionary
    /\ UNCHANGED <<censorVars, dictionary, rc, fs>>

(***************************************************************************)
(* Single calls of regex_censor and of fix_sentence                        *)
(***************************************************************************)
RegexCensorCall ==
    /\ ~rc.done
    /\ rc' = [rc EXCEPT !.sentence = regex_censor(rc.sentence, rc.regex), !.done = TRUE]
    /\ UNCHANGED <<censorVars, dictionary, addVars, fs>>

FixSentenceCall ==
    /\ ~fs.done
    /\ fs' = [fs EXCEPT !.out = fix_sentence(fs.original, fs.censored), !.done = TRUE]
    /\ UNCHANGED <<censorVars, dictionary, addVars, rc>>

(***************************************************************************)
(* Specifications                                                          *)
(***************************************************************************)
\* censor calls running concurrently with add_words calls.
Init ==
    /\ IdleCensor
    /\ IdleAdd
    /\ dictionary = DefaultDictionary
    /\ rc = NoRegexCensor
    /\ fs = NoFixSentence

ConcCensorCall == CensorCall(ConcTexts, ConcTypeLists, ConcArgs)

Next ==
    \/ ConcCensorCall
    \/ CensorPass
    \/ CensorFail
    \/ CensorClassify
    \/ CensorReturn
    \/ AddCall
    \/ AddReject
    \/ AddSet
    \/ AddOk
    \/ AddReturn

Spec == Init /\ [][Next]_vars

\* censor calls, one after the other, against a dictionary add_words can
\* have left.
InitCensor ==
    /\ IdleCensor
    /\ IdleAdd
    /\ dictionary \in Dictionaries
    /\ rc = NoRegexCensor
    /\ fs = NoFixSentence

SeqCensorCall == CensorCall(CensorTexts, TypeLists, CustomArgs)

NextCensor ==
    \/ SeqCensorCall
    \/ CensorPass
    \/ CensorFail
    \/ CensorClassify
    \/ CensorReturn

SpecCensor == InitCensor /\ [][NextCensor]_vars

\* The same calls against the default dictionary.
SpecOrder == Init /\ [][NextCensor]_vars

\* A censor call on a text without vocabulary words, then a second call on
\* the output of the first.
AgainCensorCall == CensorCall(AgainTexts, TypeLists, CustomArgs)

NextAgain ==
    \/ AgainCensorCall
    \/ CensorPass
    \/ CensorFail
    \/ CensorClassify
    \/ CensorReturn
    \/ CensorAgain

SpecAgain == Init /\ [][NextAgain]_vars

\* One masking pass over any buffer with any matcher.
InitMask ==
    /\ IdleCensor
    /\ IdleAdd
    /\ dictionary = DefaultDictionary
    /\ \E s \in MaskTexts, r \in Matchers :
           rc = [regex |-> r, binding |-> s, sentence |-> s, done |-> FALSE]
    /\ fs = NoFixSentence

NextMask == RegexCensorCall

SpecMask == InitMask /\ [][NextMask]_vars

\* One masking pass over a buffer of one-byte characters, where a byte is a
\* character.
InitMaskAscii ==
    /\ IdleCensor
    /\ IdleAdd
    /\ dictionary = DefaultDictionary
    /\ \E s \in AsciiMaskTexts, r \in Matchers :
           rc = [regex |-> r, binding |-> s, sentence |-> s, done |-> FALSE]
    /\ fs = NoFixSentence

SpecMaskAscii == InitMaskAscii /\ [][NextMask]_vars

\* One reconciliation of any two texts.
InitFix ==
    /\ IdleCensor
    /\ IdleAdd
    /\ dictionary = DefaultDictionary
    /\ rc = NoRegexCensor
    /\ \E o \in FixTexts, c \in FixTexts :
           fs = [original |-> o, censored |-> c, out |-> <<>>, done |-> FALSE]

NextFix == FixSentenceCall

SpecFix == InitFix /\ [][NextFix]_vars

(***************************************************************************)
(* Properties                                                              *)
(***************************************************************************)
Range(f) == {f[i] : i \in DOMAIN f}

Returned == ret # <<>>
ReturnedOk == ret # <<>> /\ ret[1].ok

\* C1 as stated: the flag of a returned result is true iff the censored
\* text differs from the original.
C1_FlagIffChanged ==
    ReturnedOk =>
        (ret[1].value.valid <=> ret[1].value.censored # ret[1].value.original)

\* C1 amended: the flag (field valid) of a returned result is true iff the
\* censored text EQUALS the original, which is the input text.
C1_ValidIffUnchanged ==
    ReturnedOk =>
        /\ ret[1].value.original = sentence
        /\ ret[1].value.valid <=> ret[1].value.censored = ret[1].value.original

\* A call that changed the text returned with the flag false.
C1_Witness ==
    /\ ReturnedOk
    /\ ret[1].value.censored # ret[1].value.original
    /\ ~ret[1].value.valid

\* C2: a masking pass leaves the character count of the buffer unchanged.
C2_PassKeepsCharCount ==
    rc.done => Len(rc.sentence) = Len(rc.binding)

\* The positions of the pre-pass buffer inside a span the matcher reported.
InSpans(regex, s) ==
    LET spans == FindIter(regex, s)
    IN {i \in 1..Len(s) : \E k \in 1..Len(spans) : spans[k].start <= i /\ i < spans[k].end}

\* C3: a masking pass leaves every character outside the reported spans as
\* it was.
C3_PassKeepsOutside ==
    rc.done =>
        \A i \in (1..Len(rc.binding)) \ InSpans(rc.regex, rc.binding) :
            i <= Len(rc.sentence) /\ rc.sentence[i] = rc.binding[i]

\* C4: a call whose types contain Custom never returns a result when arg is
\* None or does not compile; it returns NoArgs in the first case and
\* InvalidRegex in the second.
C4_CustomErrors ==
    ("Custom" \in Range(types_in) /\ pc # "idle") =>
        /\ arg = <<>> =>
              /\ pc # "done"
              /\ ~(pc = "loop" /\ ti > Len(types))
              /\ Returned => ret[1] = Err("NoArgs")
        /\ (arg # <<>> /\ ~RegexNew(arg[1]).ok) =>
              /\ pc # "done"
              /\ ~(pc = "loop" /\ ti > Len(types))
              /\ Returned => ret[1] = Err("InvalidRegex")

\* A call with Link and Custom and a pattern that does not compile returned
\* the error.
C4_Witness ==
    /\ pc = "error"
    /\ Range(types_in) = {"Link", "Custom"}
    /\ arg # <<>>
    /\ ret[1] = Err("InvalidRegex")

\* C5: the dictionary never holds the empty word; add_words returns Ok only
\* for a batch without an empty word, returns EmptyWord at an empty word,
\* and a batch made of one empty word leaves the dictionary as it found it.
C5_NoEmptyWord ==
    /\ <<>> \notin DOMAIN dictionary
    /\ apc = "ok" => \A k \in 1..Len(vulgars) : vulgars[k].word # <<>>
    /\ apc = "error" => (vi <= Len(vulgars) /\ vulgars[vi].word = <<>>)
    /\ (apc = "error" /\ Len(vulgars) = 1) => dictionary = dict0

\* add_words rejected a batch made of one empty word, after an earlier call
\* had extended the dictionary.
C5_Witness ==
    /\ apc = "error"
    /\ Len(vulgars) = 1
    /\ vulgars[1].word = <<>>
    /\ dict0 # DefaultDictionary

\* C6: the passes of a call run in canonical order, each type at most once,
\* and the outcome of a call is the outcome of every call with the same
\* sentence, arg and dictionary whose types list has the same set of types.
C6_OutcomeDependsOnSet ==
    /\ pc # "idle" =>
          /\ Range(types) = Range(types_in)
          /\ \A i, j \in 1..Len(types) : i < j => TypeRank(types[i]) < TypeRank(types[j])
    /\ Returned =>
          \A tl \in TypeLists :
              Range(tl) = Range(types_in) => censor(sentence, tl, arg, dictionary) = ret[1]

\* A call returned whose types were not in canonical order, on a text where
\* the passes run in the caller's order give another buffer.
C6_Witness ==
    /\ ReturnedOk
    /\ Len(types_in) = 2
    /\ TypeRank(types_in[1]) > TypeRank(types_in[2])
    /\ CensorLoop(types_in, sentence, arg) # Ok(custom)

BuiltIn == {"Link", "IP", "Email"}

\* C7: censoring the output of a call again, with the same built-in types,
\* returns that output unchanged.
C7_Idempotent ==
    (ReturnedOk /\ first # <<>> /\ Range(types_in) \subseteq BuiltIn) =>
        ret[1].value.censored = first[1]

\* The passes for the built-in types of the request, in canonical order.
BuiltInPasses(s, requested) ==
    CensorLoop(SelectSeq(<<"Link", "IP", "Email">>, LAMBDA t : t \in requested), s, <<>>).value

\* C8 as stated: when the call fails the working buffer equals the input.
C8_ErrorBeforeAnyPass ==
    pc = "error" => custom = sentence

\* C8 amended: the failure is raised before the Custom pass runs and after
\* the passes of the requested Link, IP and Email types have run, so the
\* working buffer equals the input text with those passes applied (the input
\* itself when Custom is the only requested type).
C8_ErrorBeforeCustomPass ==
    pc = "error" =>
        /\ types[ti] = "Custom"
        /\ custom = BuiltInPasses(sentence, Range(types_in))
        /\ Range(types_in) = {"Custom"} => custom = sentence

\* A call failed after a pass had changed the working buffer.
C8_Witness ==
    /\ pc = "error"
    /\ custom # sentence

\* C9: the reconciled text has the shorter of the two lengths, is "*" where
\* the classifier's text is "*" and carries the character of the
\* pre-classifier text elsewhere; a "*" of the pre-classifier text stays.
C9_Reconcile ==
    fs.done =>
        /\ Len(fs.out) = Min(Len(fs.original), Len(fs.censored))
        /\ \A i \in 1..Len(fs.out) :
              /\ fs.censored[i] = "*" => fs.out[i] = "*"
              /\ fs.censored[i] # "*" => fs.out[i] = fs.original[i]
              /\ fs.original[i] = "*" => fs.out[i] = "*"

\* A reconciliation of texts of different lengths, with a mask and with a
\* character the classifier altered.
C9_Witness ==
    /\ fs.done
    /\ Len(fs.original) > Len(fs.censored)
    /\ \E i \in 1..Len(fs.out) : fs.censored[i] = "*" /\ fs.original[i] # "*"
    /\ \E i \in 1..Len(fs.out) : fs.censored[i] \notin {"*", fs.original[i]}

\* The position of the first empty word of a batch (past its end if none).
FirstEmpty(batch) ==
    IF \E k \in 1..Len(batch) : batch[k].word = <<>>
    THEN CHOOSE k \in 1..Len(batch) :
            /\ batch[k].word = <<>>
            /\ \A j \in 1..(k - 1) : batch[j].word # <<>>
    ELSE Len(batch) + 1

\* C10: add_words commits its entries one at a time, in order: while it runs
\* the dictionary holds exactly the entries before its position, and when it
\* returns EmptyWord its position is the first empty word, so exactly the
\* entries before that word are committed.
C10_PrefixCommitted ==
    /\ apc # "idle" =>
          /\ vi <= FirstEmpty(vulgars)
          /\ dictionary = AddAll(dict0, SubSeq(vulgars, 1, vi - 1))
    /\ apc = "error" => vi = FirstEmpty(vulgars)

\* A censor call classified against the first entry of a batch alone while
\* the add_words call was still running, its second entry being empty.
C10_Witness ==
    /\ apc = "loop"
    /\ dict0 = DefaultDictionary
    /\ Len(vulgars) = 2
    /\ vi = 2
    /\ vulgars[1] = [word |-> <<"a",".","a">>, word_type |-> "INAPPROPRIATE"]
    /\ vulgars[2].word = <<>>
    /\ ReturnedOk
    /\ ret[1].value.original = <<"h","t","t","p",":","/","/","a",".","a">>
    /\ ret[1].value.censored = <<"h","t","t","p",":","/","/","a","*","*">>

====
